---- MODULE Spec2Model ----
(***************************************************************************)
(* score.svg: the sprite cache (Sprite), the dimension resolver            *)
(* (Svg._width_height) and the size directives (Svg.wh_multipliers,        *)
(* svg2png), modelled from src/score/svg/__init__.py.                      *)
(*                                                                         *)
(* Spec is the sprite cache over changing member files on storage that     *)
(* works; SpecStore adds failing writes and lost or cut-short artifacts,   *)
(* SpecOrder a member discovery that changes its order, SpecRace two       *)
(* constructions at once, SpecEdit a construction in single steps while   *)
(* member files are rewritten, SpecFault failing writes over rewritten     *)
(* members, SpecMembers one instance under members that come and go;       *)
(* SpecSvg and SpecSize are the resolver and the size directives on their  *)
(* own, SpecStrip the offsets and translates of float-width members and    *)
(* SpecIds the identifiers Svg.path2css gives to member paths.             *)
(*                                                                         *)
(* Numbers are integers (lengths) or normalised fractions (multipliers,    *)
(* float widths).                                                          *)
(* A python tuple and a python list are both TLA+ sequences.               *)
(***************************************************************************)
EXTENDS Integers, Sequences, FiniteSets, TLC

VARIABLES
    cachedir,     \* conf.cachedir is configured (truthy)
    paths,        \* what conf.paths() returns now: a sequence of distinct paths
    files,        \* rootdir: path -> [doc, mtime] for every member file
    now,          \* the storage clock
    metaFile,     \* cachedir/__sprite__.meta
    contentFile,  \* cachedir/__sprite__.svg
    sprite,       \* the Sprite instance of the last construction
    served,       \* what the last access of Sprite.content returned
    edits,        \* number of changes made to the member files so far
    fresh,        \* no member file was changed since the last construction
    since,        \* history: what changed since the metadata was last written
    pre,          \* history: what the last construction found when it began
    size,         \* the size argument of wh_multipliers / svg2png (<<>>: None or '')
    image,        \* the document of the Svg the size is applied to
    out,          \* the call made with size and image, and what it returned
    svg,          \* the document of an Svg instance
    _wh,          \* its _wh field
    got,          \* what the last access of its width / height returned
    pc,           \* where each of two concurrent Sprite(conf) calls stands
    inst,         \* what each of them has read and built so far
    strip,        \* a row of members with float widths, its offsets and its nodes
    sheet,        \* what the last call of Sprite.css returned
    ids           \* two member paths and the identifiers Svg.path2css gave them

spriteVars == <<cachedir, paths, files, now, metaFile, contentFile, sprite, served,
                edits, fresh, since, pre>>
sizeVars == <<size, image, out>>
svgVars == <<svg, _wh, got>>
raceVars == <<pc, inst>>
fnVars == <<strip, sheet, ids>>
vars == <<spriteVars, sizeVars, svgVars, raceVars, fnVars>>

----------------------------------------------------------------------------
(* Bounds *)

MaxTime == 2
MaxEdits == 2
MaxLen == 5        \* characters of a size string
MaxTokens == 5     \* tokens of a viewBox attribute

Paths == {"a.svg", "b.svg", "c.svg"}

----------------------------------------------------------------------------
(* Documents: the attributes of the root node that the code reads.  The    *)
(* viewBox is kept as the token list re.split(r'\s+', ...) yields; a token  *)
(* or attribute value is numeric (float() accepts it) or not.               *)

Tok(v) == [ok |-> TRUE, val |-> v]
Junk == [ok |-> FALSE, val |-> 0]
NoAttr == [present |-> FALSE, ok |-> FALSE, val |-> 0, unit |-> ""]
\* an attribute value: a number and what follows it ("", "px", "em")
Attr(v, unit) == [present |-> TRUE, ok |-> TRUE, val |-> v, unit |-> unit]
JunkAttr == [present |-> TRUE, ok |-> FALSE, val |-> 0, unit |-> ""]
NoViewBox == [present |-> FALSE, tokens |-> <<>>]
ViewBox(toks) == [present |-> TRUE, tokens |-> toks]

\* transform: the items of the root's transform attribute (<<>>: no attribute)
Doc(vb, w, h, tr) == [viewBox |-> vb, width |-> w, height |-> h, transform |-> tr]

\* viewBox="0 0 10 20" width="999"
DocA == Doc(ViewBox(<<Tok(0), Tok(0), Tok(10), Tok(20)>>), Attr(999, ""), NoAttr, <<>>)
\* width="20px" height="30" transform="scale(2)"
DocB == Doc(NoViewBox, Attr(20, "px"), Attr(30, ""), <<[op |-> "scale", arg |-> 2]>>)
\* viewBox="0 0 5 5"
DocC == Doc(ViewBox(<<Tok(0), Tok(0), Tok(5), Tok(5)>>), NoAttr, NoAttr, <<>>)
\* viewBox="10 10 5 5"
DocNeg == Doc(ViewBox(<<Tok(10), Tok(10), Tok(5), Tok(5)>>), Attr(5, ""), Attr(5, ""), <<>>)
\* viewBox="0 0 10" width="10" height="10"
DocBad == Doc(ViewBox(<<Tok(0), Tok(0), Tok(10)>>), Attr(10, ""), Attr(10, ""), <<>>)

\* viewBox="5 5 5 10"
DocZero == Doc(ViewBox(<<Tok(5), Tok(5), Tok(5), Tok(10)>>), NoAttr, NoAttr, <<>>)

Docs == {DocA, DocB, DocC, DocNeg, DocBad}

----------------------------------------------------------------------------
(* Svg._width_height *)

WH(w, h) == [err |-> "none", w |-> w, h |-> h]
Raise(e) == [err |-> e, w |-> 0, h |-> 0]

\* float(value.replace('px', '')): the number when nothing else follows it
float_px(a) ==
    IF a.ok /\ a.unit \in {"", "px"} THEN [err |-> "none", val |-> a.val]
    ELSE [err |-> "ValueError", val |-> 0]

\* the except KeyError branch: the width and height attributes, "px" removed
width_height_attrs(doc) ==
    IF ~doc.width.present \/ ~doc.height.present THEN Raise("KeyError")
    ELSE IF float_px(doc.width).err # "none" THEN Raise(float_px(doc.width).err)
    ELSE IF float_px(doc.height).err # "none" THEN Raise(float_px(doc.height).err)
    ELSE WH(float_px(doc.width).val, float_px(doc.height).val)

\* the try branch: x, y, w, h = re.split(...); width = w - x; height = h - y
width_height_viewBox(toks) ==
    IF Len(toks) # 4 THEN Raise("ValueError")
    ELSE IF \E i \in 1..4 : ~toks[i].ok THEN Raise("ValueError")
    ELSE WH(toks[3].val - toks[1].val, toks[4].val - toks[2].val)

\* a resolver that takes the width and height attributes when both are there
width_height_attrs_first(doc) ==
    IF doc.width.present /\ doc.height.present THEN width_height_attrs(doc)
    ELSE IF doc.viewBox.present THEN width_height_viewBox(doc.viewBox.tokens)
    ELSE width_height_attrs(doc)

\* a resolver whose handler also takes the ValueError of a malformed viewBox
width_height_lenient(doc) ==
    IF doc.viewBox.present /\ width_height_viewBox(doc.viewBox.tokens).err = "none"
    THEN width_height_viewBox(doc.viewBox.tokens)
    ELSE width_height_attrs(doc)

width_height(doc) ==
    IF doc.viewBox.present THEN width_height_viewBox(doc.viewBox.tokens)
    ELSE width_height_attrs(doc)

----------------------------------------------------------------------------
(* Sprite.__init__: the rebuild loop over conf.paths() *)

Max(a, b) == IF a >= b THEN a ELSE b

EmptyMap == [p \in {} |-> 0]
Put(m, k, v) == [p \in (DOMAIN m) \cup {k} |-> IF p = k THEN v ELSE m[p]]

NoLayout == [err |-> "none", width |-> 0, height |-> 0,
             svg_dimensions |-> EmptyMap, svg_offsets |-> EmptyMap]

\* a loop body that records the offset after the member's width is taken off
pack_step_after(acc, path, doc) ==
    LET wh == width_height(doc) IN
    IF acc.err # "none" THEN acc
    ELSE IF wh.err # "none" THEN [acc EXCEPT !.err = wh.err]
    ELSE [err |-> "none",
          svg_dimensions |-> Put(acc.svg_dimensions, path, <<wh.h, wh.w>>),
          svg_offsets |-> Put(acc.svg_offsets, path, acc.width - wh.w),
          width |-> acc.width - wh.w,
          height |-> Max(acc.height, wh.h)]

\* one iteration of the loop body for `path`, given the accumulator acc
\* (acc.width holds the running `offset`)
pack_step(acc, path, doc) ==
    LET wh == width_height(doc) IN
    IF acc.err # "none" THEN acc
    ELSE IF wh.err # "none" THEN [acc EXCEPT !.err = wh.err]
    ELSE [err |-> "none",
          svg_dimensions |-> Put(acc.svg_dimensions, path, <<wh.h, wh.w>>),
          svg_offsets |-> Put(acc.svg_offsets, path, acc.width),
          width |-> acc.width - wh.w,
          height |-> Max(acc.height, wh.h)]

RECURSIVE pack_loop(_, _, _)
pack_loop(acc, ps, fs) ==
    IF ps = <<>> THEN acc
    ELSE pack_loop(pack_step(acc, Head(ps), fs[Head(ps)].doc), Tail(ps), fs)

\* lines 333-343: offset = 0, height = 0, the loop, width = -offset
pack(ps, fs) ==
    LET acc == pack_loop(NoLayout, ps, fs) IN
    [acc EXCEPT !.width = -acc.width]

----------------------------------------------------------------------------
(* Numbers that need not be whole (size directives, float widths):         *)
(* fractions <<n, d>> in lowest terms with d > 0 stand for the floats      *)
(* (rounding is not modelled).                                              *)

Abs(n) == IF n < 0 THEN -n ELSE n

RECURSIVE GCD(_, _)
GCD(a, b) == IF b = 0 THEN a ELSE GCD(b, a % b)

Frac(n, d) ==
    LET g == GCD(Abs(n), Abs(d))
        sgn == IF d < 0 THEN -1 ELSE 1
    IN <<sgn * (n \div g), sgn * (d \div g)>>

FracInt(n) == <<n, 1>>
FracAdd(a, b) == Frac(a[1] * b[2] + b[1] * a[2], a[2] * b[2])
FracMul(a, b) == Frac(a[1] * b[1], a[2] * b[2])
\* a / b for b # 0
FracDiv(a, b) == Frac(a[1] * b[2], a[2] * b[1])

FracNeg(a) == <<-a[1], a[2]>>
FracLeq(a, b) == a[1] * b[2] <= b[1] * a[2]

\* '%d' % x for a float x: its integer part (rounded towards zero)
fmt_d(x) == IF x[1] >= 0 THEN x[1] \div x[2] ELSE -((-x[1]) \div x[2])

----------------------------------------------------------------------------
(* Svg.path2css *)

Chars(path) ==
    CASE path = "a.svg" -> <<"a", ".", "s", "v", "g">>
      [] path = "b.svg" -> <<"b", ".", "s", "v", "g">>
      [] path = "c.svg" -> <<"c", ".", "s", "v", "g">>

\* str.find(c): the 0-based index of the first c, or -1
Find(s, c) ==
    IF \E i \in 1..Len(s) : s[i] = c
    THEN (CHOOSE i \in 1..Len(s) : s[i] = c /\ \A j \in 1..(i - 1) : s[j] # c) - 1
    ELSE -1

\* s[:k] for k >= -1
Upto(s, k) == IF k >= 0 THEN SubSeq(s, 1, k) ELSE SubSeq(s, 1, Len(s) - 1)

path2css(s) ==
    LET cut == Upto(s, Find(s, ".")) IN
    [i \in 1..Len(cut) |-> IF cut[i] = "/" THEN "-" ELSE cut[i]]

----------------------------------------------------------------------------
(* Sprite._generate_content, over a fresh conf.paths() *)

NoContent == [kind |-> "none"]
ContentError(e) == [kind |-> "error", err |-> e]

\* lines 420-426: nothing is added for an offset that is 0; else
\* 'translate(%d)' % -offset is put before the items of the transform
\* attribute, or becomes the attribute when there is none
with_translate(offset, tr) ==
    IF offset # FracInt(0)
    THEN <<[op |-> "translate", arg |-> fmt_d(FracNeg(offset))]>> \o tr
    ELSE tr

\* the member node of `path`: id set, translate put before the transform
member_node(sp, path, doc) ==
    [id |-> path2css(Chars(path)),
     transform |-> with_translate(FracInt(sp.svg_offsets[path]), doc.transform),
     doc |-> doc]

\* renderer.render_file(path) is taken to give the document of the file
generate_content(sp, ps, fs) ==
    IF \E i \in 1..Len(ps) : ps[i] \notin DOMAIN sp.svg_offsets
    THEN ContentError("KeyError")
    ELSE [kind |-> "svg", width |-> sp.width, height |-> sp.height,
          members |-> [i \in 1..Len(ps) |-> member_node(sp, ps[i], fs[ps[i]].doc)]]

\* Sprite.svg_css(path) without size, lines 386-394: dim = svg_dimensions[path],
\* 'width:%dpx;height:%dpx;' % (dim[1], dim[0]) and
\* 'background-position:%dpx 0;' % svg_offsets[path]
svg_css(sp, path) ==
    [class |-> path2css(Chars(path)),
     width |-> fmt_d(FracInt(sp.svg_dimensions[path][2])),
     height |-> fmt_d(FracInt(sp.svg_dimensions[path][1])),
     position |-> fmt_d(FracInt(sp.svg_offsets[path]))]

\* Sprite.css, lines 376-383: one .icon-<id> rule per path of a fresh
\* conf.paths(); the dict lookups of svg_css raise KeyError
css(sp, ps) ==
    IF \E i \in 1..Len(ps) :
          ps[i] \notin DOMAIN sp.svg_dimensions \/ ps[i] \notin DOMAIN sp.svg_offsets
    THEN ContentError("KeyError")
    ELSE [kind |-> "css", rules |-> [i \in 1..Len(ps) |-> svg_css(sp, ps[i])]]

----------------------------------------------------------------------------
(* The cache artifacts *)

NoFile == [exists |-> FALSE]

\* js = (self.width, self.height), self.svg_dimensions, self.svg_offsets;
\* json.dumps(js): the array [[width, height], {path: [h, w]}, {path: offset}]
json_dumps(sp) == <<<<sp.width, sp.height>>, sp.svg_dimensions, sp.svg_offsets>>

\* json.loads: the array back as a list of a list and two dicts
json_loads(text) == <<text[1], text[2], text[3]>>

\* Sprite._write_cache, the metadata artifact
write_meta(sp, t) == [exists |-> TRUE, text |-> json_dumps(sp), mtime |-> t]

\* Sprite._write_cache, the content artifact
write_content(sp, ps, fs) == [exists |-> TRUE, text |-> generate_content(sp, ps, fs)]

\* a _write_cache that forgets the cachedir test
write_cache_always(cd, cache, sp, ps, fs, t) ==
    [meta |-> write_meta(sp, t), content |-> write_content(sp, ps, fs)]

\* a _write_cache that stops after the metadata artifact
write_cache_meta_only(cd, cache, sp, ps, fs, t) ==
    IF ~cd THEN cache
    ELSE [meta |-> write_meta(sp, t), content |-> cache.content]

\* Sprite._write_cache: nothing without a cache directory, else both artifacts
write_cache(cd, cache, sp, ps, fs, t) ==
    IF ~cd THEN cache
    ELSE [meta |-> write_meta(sp, t), content |-> write_content(sp, ps, fs)]

\* the ways a write of the artifacts may fail: open(meta, 'w') raises, or the
\* metadata is written and open(cachefile, 'w') raises
NoFault == "none"
WriteFaults == {"meta", "content", "generate"}

\* an artifact cut short (an empty file): json.loads raises ValueError on it
TruncatedMeta == <<>>
TruncatedContent == [kind |-> "truncated"]

\* Sprite._write_cache when a step raises OSError, and what is left on
\* storage: "meta", the open of the metadata artifact fails; "content", the
\* open of the content artifact fails after the metadata was written;
\* "generate", _generate_content or the write fails after open(cachefile, 'w')
\* has emptied the content artifact
write_cache_failing(cache, sp, t, fault) ==
    IF fault = "meta" THEN cache
    ELSE IF fault = "content" THEN [meta |-> write_meta(sp, t), content |-> cache.content]
    ELSE [meta |-> write_meta(sp, t), content |-> [exists |-> TRUE, text |-> TruncatedContent]]

\* a validity check that compares the times with > instead of >=
cache_valid_strict(meta, ps, fs) ==
    /\ meta.exists
    /\ DOMAIN meta.text[2] = {ps[i] : i \in 1..Len(ps)}
    /\ \A path \in DOMAIN meta.text[2] : ~(fs[path].mtime > meta.mtime)

\* a validity check that compares the stored keys with conf.paths() as lists:
\* the keys of the record are in the order their offsets were given out
cache_valid_ordered(meta, ps, fs) ==
    /\ meta.exists
    /\ DOMAIN meta.text[2] = {ps[i] : i \in 1..Len(ps)}
    /\ \A i, j \in 1..Len(ps) : i < j => meta.text[3][ps[i]] >= meta.text[3][ps[j]]
    /\ \A path \in DOMAIN meta.text[2] : ~(fs[path].mtime >= meta.mtime)

\* a validity check that only asks the stored keys to be current members
cache_valid_subset(meta, ps, fs) ==
    /\ meta.exists
    /\ DOMAIN meta.text[2] \subseteq {ps[i] : i \in 1..Len(ps)}
    /\ \A path \in DOMAIN meta.text[2] : ~(fs[path].mtime >= meta.mtime)

\* Sprite._load_cache, lines 359-370: the validity check
cache_valid(meta, ps, fs) ==
    /\ meta.exists
    /\ DOMAIN meta.text[2] = {ps[i] : i \in 1..Len(ps)}
    /\ \A path \in DOMAIN meta.text[2] : ~(fs[path].mtime >= meta.mtime)

\* Sprite._load_cache, lines 371-373: the fields taken from the record
\* my_dimensions, svg_dimensions, svg_offsets = json.loads(...)
\* self.height, self.width = my_dimensions[0], my_dimensions[1]
load_fields(js) ==
    [err |-> "none", height |-> js[1][1], width |-> js[1][2],
     svg_dimensions |-> js[2], svg_offsets |-> js[3]]

----------------------------------------------------------------------------
(* Svg.wh_regex and Svg.percent_regex, matched with re.match *)

Digits == <<"0", "1", "2", "3", "4", "5", "6", "7", "8", "9">>
IsDigit(c) == \E i \in 1..Len(Digits) : Digits[i] = c
DigitVal(c) == (CHOOSE i \in 1..Len(Digits) : Digits[i] = c) - 1

\* \d+ from position i: the position after the last digit taken
RECURSIVE DigitsEnd(_, _)
DigitsEnd(s, i) == IF i <= Len(s) /\ IsDigit(s[i]) THEN DigitsEnd(s, i + 1) ELSE i

NoMatch == 0

\* \d+(?:\.\d+)? from position i: the position after it, or NoMatch
NumberEnd(s, i) ==
    LET j == DigitsEnd(s, i) IN
    IF j = i THEN NoMatch
    ELSE IF j <= Len(s) /\ s[j] = "." /\ DigitsEnd(s, j + 1) > j + 1
         THEN DigitsEnd(s, j + 1)
         ELSE j

\* $ at position i: the end, or just before a line break that ends the string
AtEnd(s, i) == i = Len(s) + 1 \/ (i = Len(s) /\ s[i] = "\n")

Unmatched == [ok |-> FALSE, g1 |-> <<>>, g2 |-> <<>>]

\* wh_regex.match(size): (\d+(?:\.\d+)?)x(\d+(?:\.\d+)?)$
wh_regex(s) ==
    LET j == NumberEnd(s, 1)
        k == IF j # NoMatch /\ j <= Len(s) /\ s[j] = "x" THEN NumberEnd(s, j + 1)
             ELSE NoMatch
    IN IF k # NoMatch /\ AtEnd(s, k)
       THEN [ok |-> TRUE, g1 |-> SubSeq(s, 1, j - 1), g2 |-> SubSeq(s, j + 1, k - 1)]
       ELSE Unmatched

\* percent_regex.match(size): (\d+(?:\.\d+)?)%$
percent_regex(s) ==
    LET j == NumberEnd(s, 1) IN
    IF j # NoMatch /\ j <= Len(s) /\ s[j] = "%" /\ AtEnd(s, j + 1)
    THEN [ok |-> TRUE, g1 |-> SubSeq(s, 1, j - 1), g2 |-> <<>>]
    ELSE Unmatched

RECURSIVE IntOf(_)
IntOf(t) == IF t = <<>> THEN 0
            ELSE 10 * IntOf(SubSeq(t, 1, Len(t) - 1)) + DigitVal(t[Len(t)])

RECURSIVE Pow10(_)
Pow10(k) == IF k = 0 THEN 1 ELSE 10 * Pow10(k - 1)

\* float(t) for a matched group
float_of(t) ==
    LET dot == Find(t, ".") IN
    IF dot = -1 THEN FracInt(IntOf(t))
    ELSE LET ip == SubSeq(t, 1, dot)
             fp == SubSeq(t, dot + 2, Len(t))
         IN Frac(IntOf(ip) * Pow10(Len(fp)) + IntOf(fp), Pow10(Len(fp)))

\* int(t) for a matched group: a ValueError when t has a fraction part
int_of(t) ==
    IF Find(t, ".") # -1 THEN [err |-> "ValueError", val |-> 0]
    ELSE [err |-> "none", val |-> IntOf(t)]

----------------------------------------------------------------------------
(* Svg.wh_multipliers and svg2png *)

Auto == <<"a", "u", "t", "o">>

Mult(w, h) == [err |-> "none", w |-> w, h |-> h]
MultError(e) == [err |-> e, w |-> FracInt(0), h |-> FracInt(0)]

\* lines 289-293: float(w) / self.width, float(h) / self.height
wh_absolute(doc, g1, g2) ==
    LET d == width_height(doc) IN
    IF d.err # "none" THEN MultError(d.err)
    ELSE IF d.w = 0 \/ d.h = 0 THEN MultError("ZeroDivisionError")
    ELSE Mult(FracDiv(float_of(g1), FracInt(d.w)), FracDiv(float_of(g2), FracInt(d.h)))

\* lines 295-298: 1 + float(p) / 100, twice
wh_percent(g1) ==
    LET m == FracAdd(FracInt(1), FracDiv(float_of(g1), FracInt(100))) IN Mult(m, m)

\* a percent read as the whole scale: float(p) / 100
wh_percent_plain(g1) ==
    LET m == FracDiv(float_of(g1), FracInt(100)) IN Mult(m, m)

\* a wh_multipliers whose percent branch scales by p / 100
wh_multipliers_plain(doc, sz) ==
    IF sz = <<>> \/ sz = Auto THEN Mult(FracInt(1), FracInt(1))
    ELSE IF wh_regex(sz).ok THEN wh_absolute(doc, wh_regex(sz).g1, wh_regex(sz).g2)
    ELSE IF percent_regex(sz).ok THEN wh_percent_plain(percent_regex(sz).g1)
    ELSE MultError("ValueError")

\* a wh_multipliers that falls back to (1, 1) for an unknown size
wh_multipliers_lenient(doc, sz) ==
    IF sz = <<>> \/ sz = Auto THEN Mult(FracInt(1), FracInt(1))
    ELSE IF wh_regex(sz).ok THEN wh_absolute(doc, wh_regex(sz).g1, wh_regex(sz).g2)
    ELSE IF percent_regex(sz).ok THEN wh_percent(percent_regex(sz).g1)
    ELSE Mult(FracInt(1), FracInt(1))

\* Svg.wh_multipliers(size)
wh_multipliers(doc, sz) ==
    IF sz = <<>> \/ sz = Auto THEN Mult(FracInt(1), FracInt(1))
    ELSE IF wh_regex(sz).ok THEN wh_absolute(doc, wh_regex(sz).g1, wh_regex(sz).g2)
    ELSE IF percent_regex(sz).ok THEN wh_percent(percent_regex(sz).g1)
    ELSE MultError("ValueError")

\* what svg2png returns: the png as rendered, or the png after
\* img.thumbnail((w, h))
Png == [err |-> "none", resized |-> FALSE, box |-> <<FracInt(0), FracInt(0)>>]
Thumbnail(w, h) == [err |-> "none", resized |-> TRUE, box |-> <<w, h>>]
PngError(e) == [err |-> e, resized |-> FALSE, box |-> <<FracInt(0), FracInt(0)>>]

\* line 185: w, h = list(map(int, wh_match.group(1, 2)))
png_absolute(g1, g2) ==
    IF int_of(g1).err # "none" THEN PngError(int_of(g1).err)
    ELSE IF int_of(g2).err # "none" THEN PngError(int_of(g2).err)
    ELSE Thumbnail(FracInt(int_of(g1).val), FracInt(int_of(g2).val))

\* lines 187-188: svg.width * percent / 100, svg.height * percent / 100
png_percent(doc, g1) ==
    LET d == width_height(doc) IN
    IF d.err # "none" THEN PngError(d.err)
    ELSE Thumbnail(FracDiv(FracMul(FracInt(d.w), float_of(g1)), FracInt(100)),
                   FracDiv(FracMul(FracInt(d.h), float_of(g1)), FracInt(100)))

\* svg2png(svg, size), the rendering by cairosvg taken to succeed
svg2png(doc, sz) ==
    IF sz = <<>> \/ sz = Auto THEN Png
    ELSE IF wh_regex(sz).ok THEN png_absolute(wh_regex(sz).g1, wh_regex(sz).g2)
    ELSE IF percent_regex(sz).ok THEN png_percent(doc, percent_regex(sz).g1)
    ELSE PngError("ValueError")

\* the size strings tried: every string over Alphabet up to MaxLen, and a
\* few longer ones
Alphabet == {"0", "1", "2", "5", ".", "x", "%", "a"}
Banana == <<"b", "a", "n", "a", "n", "a">>
Sizes ==
    UNION {[1..n -> Alphabet] : n \in 0..MaxLen}
       \cup {Auto, Banana, <<"2", "0", "x", "1", "0", "\n">>, <<"0", "%", "\n">>,
             <<"a", "u", "t", "o", "\n">>}

\* the images the sizes are applied to
Images == {DocA, DocZero, DocBad}

SizeInit ==
    /\ size \in Sizes
    /\ image \in Images
    /\ out = [op |-> "none"]

\* svg.wh_multipliers(size)
CallWhMultipliers ==
    /\ out.op = "none"
    /\ out' = [op |-> "wh_multipliers", res |-> wh_multipliers(image, size)]
    /\ UNCHANGED <<spriteVars, svgVars, raceVars, fnVars, size, image>>

\* svg2png(svg, size)
CallSvg2png ==
    /\ out.op = "none"
    /\ out' = [op |-> "svg2png", res |-> svg2png(image, size)]
    /\ UNCHANGED <<spriteVars, svgVars, raceVars, fnVars, size, image>>

----------------------------------------------------------------------------
(* The Sprite instance *)

NoSprite == [state |-> "none"]
FailedSprite(e) == [state |-> "error", err |-> e]

\* hit: what _load_cache returned; resolved: the members whose documents
\* were parsed for their dimensions during the construction
SpriteOf(lay, hit, resolved) ==
    [state |-> "ok", hit |-> hit, resolved |-> resolved,
     width |-> lay.width, height |-> lay.height,
     svg_dimensions |-> lay.svg_dimensions, svg_offsets |-> lay.svg_offsets]

\* Sprite._load_cache: FALSE without a cache directory, else the check
load_cache(cd, meta, ps, fs) == cd /\ cache_valid(meta, ps, fs)

\* Sprite._load_cache, lines 362-363: json.loads raises on the text read
load_raises(cd, meta) == cd /\ meta.exists /\ meta.text = TruncatedMeta

\* a construction whose _load_cache stores the record's offsets before the
\* checks and whose loop then fills that dict instead of a new one
init_partial(cd, meta, ps, fs) ==
    LET new == pack(ps, fs)
        kept == IF cd /\ meta.exists /\ meta.text # TruncatedMeta
                THEN meta.text[3] ELSE EmptyMap
    IN
    IF load_raises(cd, meta) THEN FailedSprite("ValueError")
    ELSE IF load_cache(cd, meta, ps, fs)
    THEN SpriteOf(load_fields(json_loads(meta.text)), TRUE, {})
    ELSE IF new.err # "none" THEN FailedSprite(new.err)
    ELSE SpriteOf([new EXCEPT !.svg_offsets =
                       [p \in (DOMAIN kept) \cup (DOMAIN new.svg_offsets) |->
                           IF p \in DOMAIN new.svg_offsets THEN new.svg_offsets[p]
                           ELSE kept[p]]],
                  FALSE, {ps[i] : i \in 1..Len(ps)})

\* Sprite.__init__, lines 331-343: the instance _load_cache or the loop leaves
init(cd, meta, ps, fs) ==
    IF load_raises(cd, meta) THEN FailedSprite("ValueError")
    ELSE IF load_cache(cd, meta, ps, fs)
    THEN SpriteOf(load_fields(json_loads(meta.text)), TRUE, {})
    ELSE LET built == pack(ps, fs) IN
         IF built.err # "none" THEN FailedSprite(built.err)
         ELSE SpriteOf(built, FALSE, {ps[i] : i \in 1..Len(ps)})

\* a content property that lets the FileNotFoundError of open() through
content_uncaught(cd, cf, sp, ps, fs) ==
    IF cd /\ cf.exists THEN [src |-> "file", text |-> cf.text]
    ELSE IF cd THEN [src |-> "file", text |-> ContentError("FileNotFoundError")]
    ELSE [src |-> "generated", text |-> generate_content(sp, ps, fs)]

\* Sprite.content: the content artifact if it can be read, else generated
content(cd, cf, sp, ps, fs) ==
    IF cd /\ cf.exists THEN [src |-> "file", text |-> cf.text]
    ELSE [src |-> "generated", text |-> generate_content(sp, ps, fs)]

Members == {paths[i] : i \in 1..Len(paths)}

\* the sequences of distinct paths
Orders == UNION {{s \in [1..n -> Paths] : \A i, j \in 1..n : i # j => s[i] # s[j]} :
                 n \in 0..Cardinality(Paths)}

\* the document each path holds when the configuration is initialised
Original(path) ==
    CASE path = "a.svg" -> DocA
      [] path = "b.svg" -> DocB
      [] path = "c.svg" -> DocC

\* the documents a later version of each file may hold
Versions(path) ==
    CASE path = "a.svg" -> {DocA, DocNeg}
      [] path = "b.svg" -> {DocB, DocBad}
      [] path = "c.svg" -> {DocC, DocNeg}

----------------------------------------------------------------------------
(* Actions *)

\* self._wh = None
NoWH == [set |-> FALSE]

\* no size call and no Svg instance under way
SizeIdle == size = <<>> /\ image = DocA /\ out = [op |-> "none"]
SvgIdle == svg = DocA /\ _wh = NoWH /\ got = [op |-> "none"]

\* the two concurrent calls, and the instance each is building
Procs == {1, 2}
NoInst == [read |-> <<>>, sp |-> NoSprite]
RaceIdle == pc = [i \in Procs |-> "idle"] /\ inst = [i \in Procs |-> NoInst]

\* no row of float-width members under way
NoStrip == [stage |-> "none", members |-> <<>>, offsets |-> <<>>, nodes |-> <<>>]
StripIdle == strip = NoStrip

\* no call of Sprite.css and no call of Svg.path2css made
SheetIdle == sheet = NoContent
NoIds == [paths |-> <<>>, id |-> <<>>, class |-> <<>>]
IdsIdle == ids = NoIds
FnIdle == StripIdle /\ SheetIdle /\ IdsIdle

Init ==
    /\ cachedir \in BOOLEAN
    /\ paths \in Orders
    /\ files = [p \in Members |-> [doc |-> Original(p), mtime |-> 0]]
    /\ now = 1
    /\ metaFile = NoFile
    /\ contentFile = NoFile
    /\ sprite = NoSprite
    /\ served = NoContent
    /\ edits = 0
    /\ fresh = FALSE
    /\ since = [touched |-> {}, members |-> {}, order |-> <<>>]
    /\ pre = [hadMeta |-> FALSE, touched |-> {}, changed |-> FALSE,
              again |-> FALSE, members |-> {}]
    /\ SizeIdle /\ FnIdle
    /\ SvgIdle
    /\ RaceIdle

\* Sprite(conf): lines 329-344 with _load_cache and _write_cache; `fault` is
\* how the write of the artifacts fails, when the construction comes to it
ConstructWith(fault) ==
    \E sp \in {init(cachedir, metaFile, paths, files)} :
    \E rebuilt \in {sp.state = "ok" /\ ~sp.hit} :
    \E cache \in {IF ~rebuilt THEN [meta |-> metaFile, content |-> contentFile]
                   ELSE IF fault = NoFault
                   THEN write_cache(cachedir, [meta |-> metaFile, content |-> contentFile],
                                    sp, paths, files, now)
                   ELSE write_cache_failing([meta |-> metaFile, content |-> contentFile],
                                            sp, now, fault)} :
    /\ fault # NoFault => (cachedir /\ rebuilt)
    /\ sprite' = IF fault # NoFault THEN FailedSprite("OSError") ELSE sp
    /\ metaFile' = cache.meta
    /\ contentFile' = cache.content
    /\ fresh' = TRUE
    /\ since' = IF rebuilt /\ cachedir /\ fault # "meta"
                THEN [touched |-> {}, members |-> Members, order |-> paths] ELSE since
    /\ pre' = [hadMeta |-> cachedir /\ metaFile.exists,
               touched |-> since.touched \cap Members,
               changed |-> Members # since.members,
               again |-> sprite.state # "none",
               members |-> Members]
    /\ UNCHANGED <<sizeVars, fnVars, svgVars, raceVars, cachedir, paths, files, now, served, edits>>

\* Sprite(conf) when storage takes every write
Construct == ConstructWith(NoFault)

\* Sprite.content, lines 400-408
Content ==
    /\ sprite.state = "ok"
    /\ served' = content(cachedir, contentFile, sprite, paths, files)
    /\ UNCHANGED <<sizeVars, fnVars, svgVars, raceVars, cachedir, paths, files, now, metaFile, contentFile, sprite, edits,
                   fresh, since, pre>>

\* Sprite.css, lines 376-383
Css ==
    /\ sprite.state = "ok"
    /\ sheet' = css(sprite, paths)
    /\ UNCHANGED <<spriteVars, sizeVars, svgVars, raceVars, strip, ids>>

\* a member file gets the current time as its modification time
Touch(p) ==
    /\ edits < MaxEdits
    /\ p \in Members
    /\ files' = [files EXCEPT ![p].mtime = now]
    /\ edits' = edits + 1
    /\ fresh' = FALSE
    /\ since' = [since EXCEPT !.touched = @ \cup {p}]
    /\ UNCHANGED <<sizeVars, fnVars, svgVars, raceVars, cachedir, paths, now, metaFile, contentFile, sprite, served, pre>>

\* a member file is rewritten with another document
Modify(p, d) ==
    /\ edits < MaxEdits
    /\ p \in Members
    /\ d \in Versions(p)
    /\ d # files[p].doc
    /\ files' = [files EXCEPT ![p] = [doc |-> d, mtime |-> now]]
    /\ edits' = edits + 1
    /\ fresh' = FALSE
    /\ since' = [since EXCEPT !.touched = @ \cup {p}]
    /\ UNCHANGED <<sizeVars, fnVars, svgVars, raceVars, cachedir, paths, now, metaFile, contentFile, sprite, served, pre>>

\* a new file appears under rootdir; conf.paths() lists it last
Add(p, d) ==
    /\ edits < MaxEdits
    /\ p \in Paths \ Members
    /\ d \in Versions(p)
    /\ paths' = Append(paths, p)
    /\ files' = Put(files, p, [doc |-> d, mtime |-> now])
    /\ edits' = edits + 1
    /\ fresh' = FALSE
    /\ since' = [since EXCEPT !.touched = @ \cup {p}]
    /\ UNCHANGED <<sizeVars, fnVars, svgVars, raceVars, cachedir, now, metaFile, contentFile, sprite, served, pre>>

\* a member file is deleted from rootdir
Remove(p) ==
    /\ edits < MaxEdits
    /\ p \in Members
    /\ paths' = SelectSeq(paths, LAMBDA q : q # p)
    /\ files' = [q \in Members \ {p} |-> files[q]]
    /\ edits' = edits + 1
    /\ fresh' = FALSE
    /\ UNCHANGED <<sizeVars, fnVars, svgVars, raceVars, cachedir, now, metaFile, contentFile, sprite, served, since, pre>>

\* time passes
Tick ==
    /\ now < MaxTime
    /\ now' = now + 1
    /\ UNCHANGED <<sizeVars, fnVars, svgVars, raceVars, cachedir, paths, files, metaFile, contentFile, sprite, served, edits,
                   fresh, since, pre>>

Next ==
    \/ Construct
    \/ Content
    \/ \E p \in Paths : Touch(p)
    \/ \E p \in Paths, d \in Docs : Modify(p, d)
    \/ \E p \in Paths, d \in Docs : Add(p, d)
    \/ \E p \in Paths : Remove(p)
    \/ Tick

Spec == Init /\ [][Next]_vars

\* conf.paths() lists the same files in another order
Reorder(o) ==
    /\ edits < MaxEdits
    /\ o \in Orders
    /\ {o[i] : i \in 1..Len(o)} = Members
    /\ o # paths
    /\ paths' = o
    /\ edits' = edits + 1
    /\ fresh' = FALSE
    /\ UNCHANGED <<sizeVars, fnVars, svgVars, raceVars, cachedir, files, now, metaFile, contentFile, sprite, served,
                   since, pre>>

\* the metadata artifact is deleted from the cache directory
DeleteMeta ==
    /\ edits < MaxEdits
    /\ cachedir /\ metaFile.exists
    /\ metaFile' = NoFile
    /\ edits' = edits + 1
    /\ UNCHANGED <<sizeVars, fnVars, svgVars, raceVars, cachedir, paths, files, now, contentFile, sprite, served,
                   fresh, since, pre>>

\* the metadata artifact is cut short (a writer that stopped after open(meta, 'w'))
TruncateMeta ==
    /\ edits < MaxEdits
    /\ cachedir /\ metaFile.exists /\ metaFile.text # TruncatedMeta
    /\ metaFile' = [exists |-> TRUE, text |-> TruncatedMeta, mtime |-> now]
    /\ edits' = edits + 1
    /\ UNCHANGED <<sizeVars, fnVars, svgVars, raceVars, cachedir, paths, files, now, contentFile, sprite, served,
                   fresh, since, pre>>

\* the content artifact is deleted from the cache directory
DeleteContent ==
    /\ edits < MaxEdits
    /\ cachedir /\ contentFile.exists
    /\ contentFile' = NoFile
    /\ edits' = edits + 1
    /\ UNCHANGED <<sizeVars, fnVars, svgVars, raceVars, cachedir, paths, files, now, metaFile, sprite, served,
                   fresh, since, pre>>

\* the content artifact is cut short
TruncateContent ==
    /\ edits < MaxEdits
    /\ cachedir /\ contentFile.exists /\ contentFile.text # TruncatedContent
    /\ contentFile' = [exists |-> TRUE, text |-> TruncatedContent]
    /\ edits' = edits + 1
    /\ UNCHANGED <<sizeVars, fnVars, svgVars, raceVars, cachedir, paths, files, now, metaFile, sprite, served,
                   fresh, since, pre>>

\* a cache directory is configured and member discovery lists every file
InitStore == Init /\ cachedir /\ paths = <<"a.svg", "b.svg", "c.svg">>

\* the sprite cache on storage that may fail a write, lose an artifact or
\* cut one short; the member files stay as they are
NextStore ==
    \/ \E fault \in {NoFault} \cup WriteFaults : ConstructWith(fault)
    \/ Content
    \/ \E p \in Paths : Touch(p)
    \/ DeleteMeta
    \/ TruncateMeta
    \/ DeleteContent
    \/ TruncateContent
    \/ Tick

SpecStore == InitStore /\ [][NextStore]_vars

\* the sprite cache and the style sheet of an instance while member files
\* come and go
NextMembers ==
    \/ Construct
    \/ Content
    \/ Css
    \/ \E p \in Paths, d \in Docs : Add(p, d)
    \/ \E p \in Paths : Remove(p)

SpecMembers == Init /\ [][NextMembers]_vars

\* the sprite cache on storage that may fail a write while member files
\* are rewritten
NextFault ==
    \/ \E fault \in {NoFault} \cup WriteFaults : ConstructWith(fault)
    \/ Content
    \/ \E p \in Paths, d \in Docs : Modify(p, d)
    \/ Tick

SpecFault == InitStore /\ [][NextFault]_vars

\* the sprite cache under a member discovery that may list the same files in
\* another order; the files keep their documents
NextOrder ==
    \/ Construct
    \/ Content
    \/ \E p \in Paths : Touch(p)
    \/ \E o \in Orders : Reorder(o)
    \/ Tick

SpecOrder == InitStore /\ [][NextOrder]_vars

----------------------------------------------------------------------------
(* Two Sprite(conf) calls running at once against one cache directory, one  *)
(* storage operation at a time.  Nothing coordinates them: each step below  *)
(* is one read or write of the storage, in the order the code makes them.   *)

RaceUnchanged == UNCHANGED <<sizeVars, fnVars, svgVars, cachedir, paths, files, now, sprite, served,
                             edits, fresh, since, pre>>

\* _load_cache, lines 357-365: the isfile test, the read and json.loads of
\* the metadata, the comparison of the key sets
LoadRead(i) ==
    /\ pc[i] = "start"
    /\ IF load_raises(cachedir, metaFile)
       THEN /\ pc' = [pc EXCEPT ![i] = "done"]
            /\ inst' = [inst EXCEPT ![i].sp = FailedSprite("ValueError")]
       ELSE IF /\ cachedir /\ metaFile.exists
               /\ DOMAIN metaFile.text[2] = Members
       THEN /\ pc' = [pc EXCEPT ![i] = "times"]
            /\ inst' = [inst EXCEPT ![i].read = metaFile.text]
       ELSE /\ pc' = [pc EXCEPT ![i] = "build"]
            /\ inst' = inst
    /\ UNCHANGED <<metaFile, contentFile>>
    /\ RaceUnchanged

\* _load_cache, lines 366-374: getmtime of the metadata as it is now and of
\* the member files, then the fields from the record read before
LoadTimes(i) ==
    /\ pc[i] = "times"
    /\ IF cache_valid([exists |-> TRUE, text |-> inst[i].read, mtime |-> metaFile.mtime],
                      paths, files)
       THEN /\ pc' = [pc EXCEPT ![i] = "done"]
            /\ inst' = [inst EXCEPT
                           ![i].sp = SpriteOf(load_fields(json_loads(inst[i].read)), TRUE, {})]
       ELSE /\ pc' = [pc EXCEPT ![i] = "build"]
            /\ inst' = inst
    /\ UNCHANGED <<metaFile, contentFile>>
    /\ RaceUnchanged

\* __init__, lines 333-343, and the cachedir test of _write_cache
Build(i) ==
    /\ pc[i] = "build"
    /\ \E built \in {pack(paths, files)} :
          IF built.err # "none"
          THEN /\ pc' = [pc EXCEPT ![i] = "done"]
               /\ inst' = [inst EXCEPT ![i].sp = FailedSprite(built.err)]
          ELSE /\ pc' = [pc EXCEPT ![i] = IF cachedir THEN "openMeta" ELSE "done"]
               /\ inst' = [inst EXCEPT ![i].sp = SpriteOf(built, FALSE, Members)]
    /\ UNCHANGED <<metaFile, contentFile>>
    /\ RaceUnchanged

\* _write_cache, line 351: open(meta, 'w') empties the metadata artifact
OpenMeta(i) ==
    /\ pc[i] = "openMeta"
    /\ metaFile' = [exists |-> TRUE, text |-> TruncatedMeta, mtime |-> now]
    /\ pc' = [pc EXCEPT ![i] = "writeMeta"]
    /\ UNCHANGED <<contentFile, inst>>
    /\ RaceUnchanged

\* _write_cache, line 351: .write(json.dumps(js)) reaches the storage
WriteMeta(i) ==
    /\ pc[i] = "writeMeta"
    /\ metaFile' = write_meta(inst[i].sp, now)
    /\ pc' = [pc EXCEPT ![i] = "openContent"]
    /\ UNCHANGED <<contentFile, inst>>
    /\ RaceUnchanged

\* _write_cache, line 353: open(cachefile, 'w') empties the content artifact
OpenContent(i) ==
    /\ pc[i] = "openContent"
    /\ contentFile' = [exists |-> TRUE, text |-> TruncatedContent]
    /\ pc' = [pc EXCEPT ![i] = "writeContent"]
    /\ UNCHANGED <<metaFile, inst>>
    /\ RaceUnchanged

\* _write_cache, line 353: .write(self._generate_content()) reaches the storage
WriteContent(i) ==
    /\ pc[i] = "writeContent"
    /\ contentFile' = write_content(inst[i].sp, paths, files)
    /\ pc' = [pc EXCEPT ![i] = "done"]
    /\ UNCHANGED <<metaFile, inst>>
    /\ RaceUnchanged

\* time passes while the calls run
RaceTick ==
    /\ now < MaxTime
    /\ \E i \in Procs : pc[i] # "done"
    /\ now' = now + 1
    /\ UNCHANGED <<sizeVars, fnVars, svgVars, raceVars, cachedir, paths, files, metaFile, contentFile,
                   sprite, served, edits, fresh, since, pre>>

\* a cache directory, at least one member file, no artifact yet, and both
\* calls about to run _load_cache
InitRace ==
    /\ cachedir = TRUE
    /\ paths \in Orders \ {<<>>}
    /\ files = [p \in Members |-> [doc |-> Original(p), mtime |-> 0]]
    /\ now = 1
    /\ metaFile = NoFile
    /\ contentFile = NoFile
    /\ sprite = NoSprite
    /\ served = NoContent
    /\ edits = 0
    /\ fresh = FALSE
    /\ since = [touched |-> {}, members |-> {}, order |-> <<>>]
    /\ pre = [hadMeta |-> FALSE, touched |-> {}, changed |-> FALSE,
              again |-> FALSE, members |-> {}]
    /\ SizeIdle /\ FnIdle
    /\ SvgIdle
    /\ pc = [i \in Procs |-> "start"]
    /\ inst = [i \in Procs |-> NoInst]

NextRace ==
    \/ \E i \in Procs : LoadRead(i)
    \/ \E i \in Procs : LoadTimes(i)
    \/ \E i \in Procs : Build(i)
    \/ \E i \in Procs : OpenMeta(i)
    \/ \E i \in Procs : WriteMeta(i)
    \/ \E i \in Procs : OpenContent(i)
    \/ \E i \in Procs : WriteContent(i)
    \/ RaceTick

SpecRace == InitRace /\ [][NextRace]_vars

\* the next request: a call of Sprite(conf) that begins once the other has
\* returned
StartNext(i) ==
    /\ pc[i] = "idle"
    /\ \A j \in Procs \ {i} : pc[j] = "done"
    /\ pc' = [pc EXCEPT ![i] = "start"]
    /\ UNCHANGED <<metaFile, contentFile, inst>>
    /\ RaceUnchanged

\* a cache directory, every member file, no artifact yet; the first call is
\* about to run _load_cache and the second has not been made
InitEdit ==
    /\ cachedir = TRUE
    /\ paths = <<"a.svg", "b.svg", "c.svg">>
    /\ files = [p \in Members |-> [doc |-> Original(p), mtime |-> 0]]
    /\ now = 1
    /\ metaFile = NoFile
    /\ contentFile = NoFile
    /\ sprite = NoSprite
    /\ served = NoContent
    /\ edits = 0
    /\ fresh = FALSE
    /\ since = [touched |-> {}, members |-> {}, order |-> <<>>]
    /\ pre = [hadMeta |-> FALSE, touched |-> {}, changed |-> FALSE,
              again |-> FALSE, members |-> {}]
    /\ SizeIdle /\ FnIdle
    /\ SvgIdle
    /\ pc = [i \in Procs |-> IF i = 1 THEN "start" ELSE "idle"]
    /\ inst = [i \in Procs |-> NoInst]

\* one construction in its single reads and writes while member files are
\* rewritten, then the next construction
NextEdit ==
    \/ \E i \in Procs : LoadRead(i)
    \/ \E i \in Procs : LoadTimes(i)
    \/ \E i \in Procs : Build(i)
    \/ \E i \in Procs : OpenMeta(i)
    \/ \E i \in Procs : WriteMeta(i)
    \/ \E i \in Procs : OpenContent(i)
    \/ \E i \in Procs : WriteContent(i)
    \/ \E i \in Procs : StartNext(i)
    \/ \E p \in Paths, d \in Docs : Modify(p, d)
    \/ RaceTick

SpecEdit == InitEdit /\ [][NextEdit]_vars

\* the sprite cache at rest
SpriteIdle ==
    /\ cachedir = FALSE /\ paths = <<>> /\ files = EmptyMap /\ now = 1
    /\ metaFile = NoFile /\ contentFile = NoFile
    /\ sprite = NoSprite /\ served = NoContent
    /\ edits = 0 /\ fresh = FALSE
    /\ since = [touched |-> {}, members |-> {}, order |-> <<>>]
    /\ pre = [hadMeta |-> FALSE, touched |-> {}, changed |-> FALSE,
              again |-> FALSE, members |-> {}]

\* the documents an Svg is made of: every viewBox of up to MaxTokens tokens
\* (or none) with every width and height attribute
TokenVals == {Tok(0), Tok(10), Tok(20), Junk}
ViewBoxes ==
    {NoViewBox} \cup {ViewBox(t) : t \in UNION {[1..n -> TokenVals] : n \in 1..MaxTokens}}
WidthAttrs == {NoAttr, Attr(999, ""), Attr(20, "px"), Attr(20, "em"), JunkAttr}
HeightAttrs == {NoAttr, Attr(30, ""), JunkAttr}
SvgDocs == {Doc(vb, w, h, <<>>) : vb \in ViewBoxes, w \in WidthAttrs, h \in HeightAttrs}

\* Svg(path, ...): _wh is None
SvgInit ==
    /\ svg \in SvgDocs
    /\ _wh = NoWH
    /\ got = [op |-> "none"]

\* `if self._wh:` (line 247): _wh is None or a 2-tuple, and a 2-tuple is true
\* whatever its members are
memoized_nonzero(wh) == wh.set /\ wh.val # <<0, 0>>
memoized(wh) == wh.set

\* Svg.width / Svg.height: the _width_height property, lines 245-259
WidthHeight ==
    LET d == width_height(svg) IN
    /\ got' = IF memoized(_wh)
              THEN [op |-> "width_height", parsed |-> FALSE, doc |-> svg,
                    res |-> WH(_wh.val[1], _wh.val[2])]
              ELSE [op |-> "width_height", parsed |-> TRUE, doc |-> svg, res |-> d]
    /\ _wh' = IF ~memoized(_wh) /\ d.err = "none"
              THEN [set |-> TRUE, val |-> <<d.w, d.h>>] ELSE _wh
    /\ UNCHANGED <<spriteVars, sizeVars, fnVars, raceVars, svg>>

\* the documents the backing file of the Svg is overwritten with
Rewrites == {DocA, Doc(NoViewBox, Attr(20, "px"), Attr(30, ""), <<>>)}

\* the file behind the Svg gets another document (Svg.content and xml_root
\* read self.file at every call, lines 227 and 268); the instance is untouched
Rewrite(d) ==
    /\ d # svg
    /\ svg' = d
    /\ files' = [files EXCEPT !["a.svg"] = [doc |-> d, mtime |-> now]]
    /\ UNCHANGED <<sizeVars, fnVars, raceVars, _wh, got, cachedir, paths, now, metaFile,
                   contentFile, sprite, served, edits, fresh, since, pre>>

\* a configuration without cache directory whose one member file holds the
\* document of the Svg
SvgSprite ==
    /\ cachedir = FALSE /\ paths = <<"a.svg">>
    /\ files = [p \in {"a.svg"} |-> [doc |-> svg, mtime |-> 0]]
    /\ now = 1
    /\ metaFile = NoFile /\ contentFile = NoFile
    /\ sprite = NoSprite /\ served = NoContent
    /\ edits = 0 /\ fresh = FALSE
    /\ since = [touched |-> {}, members |-> {}, order |-> <<>>]
    /\ pre = [hadMeta |-> FALSE, touched |-> {}, changed |-> FALSE,
              again |-> FALSE, members |-> {}]

\* the dimension resolver: accesses of width / height on one Svg, and the
\* layout build over a file with the same document
InitSvg == SvgInit /\ SvgSprite /\ SizeIdle /\ RaceIdle /\ FnIdle
NextSvg ==
    \/ WidthHeight
    \/ Construct
    \/ \E d \in Rewrites : Rewrite(d)
SpecSvg == InitSvg /\ [][NextSvg]_vars

\* a row of members whose widths are floats: what each member is resolved
\* to, and the items of its transform attribute
MaxMembers == 3
StripWidths == {FracInt(10), Frac(21, 2), Frac(1, 2)}
StripMembers ==
    {[w |-> w, transform |-> tr] : w \in StripWidths, tr \in {<<>>, <<[op |-> "scale", arg |-> 2]>>}}

\* lines 336-341 over float widths: svg_offsets[path] = offset, then
\* offset -= svg.width
RECURSIVE offsets_of(_, _)
offsets_of(offset, ms) ==
    IF ms = <<>> THEN <<>>
    ELSE <<offset>> \o offsets_of(FracAdd(offset, FracNeg(Head(ms).w)), Tail(ms))

StripInit ==
    /\ strip \in {[stage |-> "new", members |-> ms, offsets |-> <<>>, nodes |-> <<>>] :
                    ms \in UNION {[1..n -> StripMembers] : n \in 1..MaxMembers}}

\* Sprite.__init__ over the row: the offsets
PackStrip ==
    /\ strip.stage = "new"
    /\ strip' = [strip EXCEPT !.stage = "packed",
                               !.offsets = offsets_of(FracInt(0), strip.members)]
    /\ UNCHANGED <<spriteVars, sizeVars, svgVars, raceVars, sheet, ids>>

\* Sprite._generate_content over the row: the transform of every node
GenerateStrip ==
    /\ strip.stage = "packed"
    /\ strip' = [strip EXCEPT !.stage = "generated",
                               !.nodes = [i \in 1..Len(strip.members) |->
                                   with_translate(strip.offsets[i], strip.members[i].transform)]]
    /\ UNCHANGED <<spriteVars, sizeVars, svgVars, raceVars, sheet, ids>>

\* the rows of float-width members: layout, then content
InitStrip == SpriteIdle /\ SizeIdle /\ SvgIdle /\ RaceIdle /\ SheetIdle /\ IdsIdle /\ StripInit
NextStrip == PackStrip \/ GenerateStrip
SpecStrip == InitStrip /\ [][NextStrip]_vars

\* member paths as strings of characters: files under rootdir and in folders
\* of it, all with the extension .svg
PathNames ==
    {<<"a", ".", "s", "v", "g">>,
     <<"b", ".", "s", "v", "g">>,
     <<"a", ".", "b", ".", "s", "v", "g">>,
     <<"x", "/", "y", ".", "s", "v", "g">>,
     <<"x", "-", "y", ".", "s", "v", "g">>,
     <<"x", "/", "a", ".", "s", "v", "g">>,
     <<"x", ".", "y", "/", "a", ".", "s", "v", "g">>}

\* two distinct members of one member set
IdsInit ==
    ids \in {[paths |-> pq, id |-> <<>>, class |-> <<>>] :
                pq \in {rs \in PathNames \X PathNames : rs[1] # rs[2]}}

\* _generate_content, line 419: root.attrib['id'] = svg.css_class
ContentIds ==
    /\ ids.id = <<>>
    /\ ids' = [ids EXCEPT !.id = [i \in 1..Len(ids.paths) |-> path2css(ids.paths[i])]]
    /\ UNCHANGED <<spriteVars, sizeVars, svgVars, raceVars, strip, sheet>>

\* Sprite.css, line 382: '.icon-%s{%s}' % (Svg.path2css(path), ...)
CssClasses ==
    /\ ids.class = <<>>
    /\ ids' = [ids EXCEPT !.class = [i \in 1..Len(ids.paths) |-> path2css(ids.paths[i])]]
    /\ UNCHANGED <<spriteVars, sizeVars, svgVars, raceVars, strip, sheet>>

\* the identifiers of the members of one sprite
InitIds == SpriteIdle /\ SizeIdle /\ SvgIdle /\ RaceIdle /\ StripIdle /\ SheetIdle /\ IdsInit
NextIds == ContentIds \/ CssClasses
SpecIds == InitIds /\ [][NextIds]_vars

\* the size directives: one call of wh_multipliers or svg2png per input
InitSize == SpriteIdle /\ SvgIdle /\ RaceIdle /\ FnIdle /\ SizeInit
NextSize == CallWhMultipliers \/ CallSvg2png
SpecSize == InitSize /\ [][NextSize]_vars

----------------------------------------------------------------------------
(* Properties of the sprite cache, checked under Spec *)

\* the last construction rebuilt the layout, and no file changed since
Rebuilt == fresh /\ sprite.state = "ok" /\ ~sprite.hit

MemberWidth(p) == width_height(files[p].doc).w
MemberHeight(p) == width_height(files[p].doc).h

RECURSIVE SumWidths(_)
SumWidths(ps) == IF ps = <<>> THEN 0 ELSE MemberWidth(Head(ps)) + SumWidths(Tail(ps))

\* the offset `path` gets when the members are packed in the order ps
RECURSIVE OffsetIn(_, _)
OffsetIn(ps, path) ==
    IF ps = <<>> \/ Head(ps) = path THEN 0
    ELSE OffsetIn(Tail(ps), path) - MemberWidth(Head(ps))

MaxHeight == CHOOSE h \in {MemberHeight(p) : p \in Members} :
                 \A p \in Members : MemberHeight(p) <= h

\* C1: after a rebuild over a non-empty member list every offset is <= 0, the
\* first offset is 0, each next offset is the previous one minus the previous
\* member's width and strictly smaller, and the sprite width is the sum of
\* the member widths.
C1_Packing ==
    (Rebuilt /\ paths # <<>>) =>
        /\ \A i \in 1..Len(paths) : sprite.svg_offsets[paths[i]] <= 0
        /\ sprite.svg_offsets[paths[1]] = 0
        /\ \A i \in 1..(Len(paths) - 1) :
              /\ sprite.svg_offsets[paths[i + 1]]
                    = sprite.svg_offsets[paths[i]] - MemberWidth(paths[i])
              /\ sprite.svg_offsets[paths[i + 1]] < sprite.svg_offsets[paths[i]]
        /\ sprite.width = SumWidths(paths)

\* the scenario of C1: widths 10, 20, 5 give offsets 0, -10, -30 and width 35
C1_Example ==
    /\ Rebuilt
    /\ paths = <<"a.svg", "b.svg", "c.svg">>
    /\ \A p \in Members : files[p].doc = Original(p)
    /\ sprite.svg_offsets = [p \in Members |->
           CASE p = "a.svg" -> 0 [] p = "b.svg" -> -10 [] p = "c.svg" -> -30]
    /\ sprite.width = 35

\* C2: after a rebuild the sprite height is the maximum of the member heights.
C2_Height ==
    (Rebuilt /\ paths # <<>>) => sprite.height = MaxHeight

\* heights 20, 30, 5 give the sprite height 30
C2_Example ==
    /\ Rebuilt
    /\ Members = Paths
    /\ \A p \in Members : files[p].doc = Original(p)
    /\ MaxHeight = 30
    /\ sprite.height = 30

\* C3: a construction right after one that rebuilt and wrote the cache, with
\* no member changed, gives the same layout and content and resolves no
\* document.
C3_Reflexive ==
    [][(Construct /\ cachedir /\ Rebuilt) =>
          /\ sprite'.state = "ok"
          /\ sprite'.resolved = {}
          /\ sprite'.width = sprite.width
          /\ sprite'.height = sprite.height
          /\ sprite'.svg_dimensions = sprite.svg_dimensions
          /\ sprite'.svg_offsets = sprite.svg_offsets
          /\ contentFile' = contentFile]_vars

\* C4: a successful _load_cache gives the width, the height, the dimensions
\* and the offsets that _write_cache wrote into the record.
C4_RoundTrip ==
    [][(Construct /\ sprite'.state = "ok" /\ sprite'.hit) =>
          /\ sprite'.width = metaFile.text[1][1]
          /\ sprite'.height = metaFile.text[1][2]
          /\ sprite'.svg_dimensions = metaFile.text[2]
          /\ sprite'.svg_offsets = metaFile.text[3]]_vars

\* the construction ran the full rebuild (which may have raised)
RanRebuild ==
    \/ sprite.state = "error"
    \/ sprite.state = "ok" /\ ~sprite.hit /\ sprite.resolved = pre.members

\* C5: when a member was touched after the metadata was written, the next
\* construction is a cache miss and runs the full rebuild.
C5_TouchInvalidates ==
    (pre.hadMeta /\ pre.touched # {}) => RanRebuild

\* one member of several was touched, no document was rewritten, no member
\* was added or removed, and the construction rebuilt
C5_Touched ==
    /\ pre.hadMeta /\ ~pre.changed
    /\ Cardinality(pre.touched) = 1 /\ Cardinality(pre.members) >= 2
    /\ fresh /\ \A p \in Members : files[p].doc = Original(p)
    /\ sprite.state = "ok" /\ ~sprite.hit /\ sprite.resolved = Members

\* C6: when the member set differs from the one the metadata was written
\* for, the next construction is a cache miss and runs the full rebuild.
C6_MembershipInvalidates ==
    (pre.hadMeta /\ pre.changed) => RanRebuild

\* a member was removed, no remaining file was touched, and the construction
\* rebuilt
C6_Removed ==
    /\ pre.hadMeta /\ pre.changed /\ pre.touched = {}
    /\ \A p \in Members : files[p].mtime = 0
    /\ sprite.state = "ok" /\ ~sprite.hit /\ sprite.resolved = pre.members
    /\ pre.members # {}

\* C7: without a cache directory no artifact is ever written or read: every
\* construction rebuilds and every content is generated.
C7_NoCachedir ==
    ~cachedir =>
        /\ metaFile = NoFile /\ contentFile = NoFile
        /\ sprite.state # "none" => RanRebuild
        /\ served # NoContent => served.src = "generated"

\* without a cache directory, a second construction rebuilt and its content
\* was generated
C7_Twice ==
    /\ ~cachedir /\ pre.again
    /\ sprite.state = "ok" /\ ~sprite.hit /\ sprite.resolved = Members /\ Members # {}
    /\ served # NoContent /\ served.src = "generated" /\ served.text.kind = "svg"

\* C18: when the modification time of some member is equal to or greater
\* than that of the metadata artifact, the construction is a cache miss and
\* runs the full rebuild.
C18_StrictlyNewer ==
    [][(/\ cachedir /\ metaFile.exists
        /\ \E p \in Members : files[p].mtime >= metaFile.mtime
        /\ Construct)
       => \/ sprite'.state = "error"
          \/ sprite'.state = "ok" /\ ~sprite'.hit /\ sprite'.resolved = Members]_vars

\* the clock never advanced: the metadata was written at time 1, a member
\* was touched at time 1, and the next construction rebuilt
C18_EqualTime ==
    /\ now = 1 /\ cachedir /\ pre.hadMeta /\ ~pre.changed /\ pre.touched # {}
    /\ \A p \in pre.touched : files[p].mtime = 1
    /\ fresh /\ sprite.state = "ok" /\ ~sprite.hit /\ sprite.resolved = Members

\* the sprite height the loop computes: the tallest member, at least 0
RECURSIVE TallestOf(_)
TallestOf(ps) == IF ps = <<>> THEN 0 ELSE Max(MemberHeight(Head(ps)), TallestOf(Tail(ps)))

\* C19: after a construction that was a cache hit the width and the height
\* are the two numbers of the stored size pair and the dimensions and offsets
\* are the stored maps, and no document was resolved; after one that was a
\* miss all four are the values computed from the current member documents,
\* whatever the metadata held.
C19_NoPartialRebuild ==
    (fresh /\ sprite.state = "ok") =>
        IF sprite.hit
        THEN /\ {sprite.width, sprite.height} = {metaFile.text[1][1], metaFile.text[1][2]}
             /\ sprite.svg_dimensions = metaFile.text[2]
             /\ sprite.svg_offsets = metaFile.text[3]
             /\ sprite.resolved = {}
        ELSE /\ sprite.width = SumWidths(paths)
             /\ sprite.height = TallestOf(paths)
             /\ DOMAIN sprite.svg_dimensions = Members
             /\ DOMAIN sprite.svg_offsets = Members
             /\ \A p \in Members :
                   /\ sprite.svg_dimensions[p] = <<MemberHeight(p), MemberWidth(p)>>
                   /\ sprite.svg_offsets[p] = OffsetIn(paths, p)
             /\ sprite.resolved = Members

\* a miss over metadata written for other members: none of the stored keys
\* that are no longer members is in the layout
C19_StaleRecord ==
    /\ cachedir /\ pre.hadMeta /\ pre.changed /\ fresh
    /\ sprite.state = "ok" /\ ~sprite.hit
    /\ Members # {} /\ Members # Paths
    /\ DOMAIN sprite.svg_offsets = Members
    /\ sprite.width = SumWidths(paths)

\* C20: after a construction with a cache directory that took the miss path
\* and completed, both artifacts are the ones of that rebuild: the metadata
\* holds the layout of the instance, and the content is the one generated
\* from the stored layout.
C20_BothOverwritten ==
    (cachedir /\ fresh /\ sprite.state = "ok" /\ ~sprite.hit) =>
        /\ metaFile.exists /\ metaFile.mtime <= now
        /\ metaFile.text = <<<<sprite.width, sprite.height>>,
                             sprite.svg_dimensions, sprite.svg_offsets>>
        /\ contentFile.exists
        /\ contentFile.text.kind = "svg"
        /\ contentFile.text = generate_content(
               [width |-> metaFile.text[1][1], height |-> metaFile.text[1][2],
                svg_offsets |-> metaFile.text[3]], paths, files)

\* a rebuild over artifacts of an earlier member set left metadata and
\* content of the new layout
C20_Overwritten ==
    /\ cachedir /\ pre.hadMeta /\ pre.changed /\ fresh
    /\ sprite.state = "ok" /\ ~sprite.hit /\ Len(paths) >= 2
    /\ metaFile.exists /\ DOMAIN metaFile.text[3] = Members
    /\ contentFile.exists /\ contentFile.text.kind = "svg"
    /\ Len(contentFile.text.members) = Len(paths)
    /\ contentFile.text.width = metaFile.text[1][1]

----------------------------------------------------------------------------
(* Properties of one instance under a changing member set, checked under   *)
(* SpecMembers                                                              *)

\* C27: whenever Sprite.css or _generate_content runs on an instance, every
\* path of the conf.paths() it iterates over is a key of the instance's
\* svg_offsets and svg_dimensions, so neither raises KeyError, also after
\* members were added or removed since the instance was constructed.
C27_MembersHaveOffsets ==
    [][/\ (sprite.state = "ok" /\ Css)
          => (/\ Members \subseteq DOMAIN sprite.svg_offsets
              /\ Members \subseteq DOMAIN sprite.svg_dimensions
              /\ sheet'.kind = "css")
       /\ (sprite.state = "ok" /\ ~(cachedir /\ contentFile.exists) /\ Content)
          => (/\ Members \subseteq DOMAIN sprite.svg_offsets
              /\ served'.text.kind = "svg")]_vars

\* c.svg was added after the instance was built over a.svg and b.svg; its
\* css and its content both raised KeyError
C27_KeyError ==
    /\ sprite.state = "ok" /\ DOMAIN sprite.svg_offsets = {"a.svg", "b.svg"}
    /\ paths = <<"a.svg", "b.svg", "c.svg">>
    /\ sheet = ContentError("KeyError")
    /\ served # NoContent /\ served.text = ContentError("KeyError")

----------------------------------------------------------------------------
(* Properties of the sprite cache on failing storage, checked under        *)
(* SpecStore                                                                *)

\* C11: when the write of the metadata or of the content artifact fails
\* during a rebuild, the construction still completes: it raises nothing and
\* the instance holds the layout just computed from the member documents.
C11_WriteFailureDegrades ==
    [][\A fault \in WriteFaults :
          ConstructWith(fault) =>
              /\ sprite'.state = "ok"
              /\ ~sprite'.hit
              /\ sprite'.width = pack(paths, files).width
              /\ sprite'.height = pack(paths, files).height
              /\ sprite'.svg_dimensions = pack(paths, files).svg_dimensions
              /\ sprite'.svg_offsets = pack(paths, files).svg_offsets]_vars

\* a rebuild wrote the metadata, the write of the content artifact failed,
\* and the construction raised the OSError
C11_Raised ==
    /\ sprite = FailedSprite("OSError")
    /\ metaFile.exists /\ metaFile.text = json_dumps(pack(paths, files))
    /\ ~contentFile.exists

\* C12: a metadata artifact that is missing or cannot be parsed makes the
\* construction a cache miss that rebuilds, and a content artifact that is
\* missing or cut short makes Sprite.content generate the content; neither
\* raises.
C12_ReadFailureIsMiss ==
    [][/\ (Construct /\ cachedir /\ (~metaFile.exists \/ metaFile.text = TruncatedMeta))
             => (sprite'.state = "ok" /\ ~sprite'.hit /\ sprite'.resolved = Members)
       /\ (Content /\ cachedir
              /\ (~contentFile.exists \/ contentFile.text = TruncatedContent))
             => (/\ served'.src = "generated"
                 /\ served'.text = generate_content(sprite, paths, files))]_vars

\* the construction found a metadata artifact cut short and raised the
\* ValueError of json.loads
C12_Raised ==
    /\ cachedir /\ metaFile.exists /\ metaFile.text = TruncatedMeta
    /\ fresh /\ sprite = FailedSprite("ValueError")

\* the layout a rebuild over the current members computes, and its content
Current == pack(paths, files)
CurrentContent == generate_content(Current, paths, files)

\* C26: when a rebuild has written the metadata and then failed before the
\* content artifact was written, so that the storage holds the new metadata
\* next to the content of an earlier rebuild, the next construction over the
\* unchanged members is not a cache hit.
C26_NoHitAfterPartialRebuild ==
    [][(/\ cachedir /\ fresh /\ sprite = FailedSprite("OSError")
        /\ metaFile.exists /\ metaFile.text = json_dumps(Current)
        /\ contentFile.exists /\ contentFile.text # TruncatedContent
        /\ contentFile.text # CurrentContent
        /\ Construct)
       => ~(sprite'.state = "ok" /\ sprite'.hit)]_vars

\* after a rebuild that wrote metadata for b.svg without transform and then
\* failed, the next construction was a cache hit and Sprite.content returned
\* the artifact of the rebuild before, with b.svg's scale(2)
C26_StaleServed ==
    /\ cachedir /\ fresh /\ sprite.state = "ok" /\ sprite.hit
    /\ metaFile.text = json_dumps(Current)
    /\ served # NoContent /\ served.src = "file"
    /\ served.text = contentFile.text /\ served.text # CurrentContent
    /\ served.text # TruncatedContent

\* C23: with a metadata artifact that is valid and no content artifact, the
\* construction is a cache hit with the stored offsets, and Sprite.content on
\* a cache-hit instance then returns generated content, every member moved
\* by its stored offset, without raising; neither step writes the content
\* artifact or changes the metadata artifact.
C23_MissingContent ==
    [][/\ (/\ cachedir /\ ~contentFile.exists
           /\ metaFile.exists /\ metaFile.text # TruncatedMeta
           /\ DOMAIN metaFile.text[2] = Members
           /\ \A p \in Members : files[p].mtime < metaFile.mtime
           /\ Construct)
          => (/\ sprite'.state = "ok" /\ sprite'.hit
              /\ sprite'.svg_offsets = metaFile.text[3]
              /\ ~contentFile'.exists /\ metaFile' = metaFile)
       /\ (/\ cachedir /\ ~contentFile.exists
           /\ metaFile.exists /\ metaFile.text # TruncatedMeta
           /\ sprite.state = "ok" /\ sprite.hit
           /\ Content)
          => (/\ served'.src = "generated" /\ served'.text.kind = "svg"
              /\ Len(served'.text.members) = Len(paths)
              /\ \A i \in 1..Len(paths) :
                    served'.text.members[i].transform
                      = with_translate(FracInt(sprite.svg_offsets[paths[i]]),
                                       files[paths[i]].doc.transform)
              /\ {served'.text.width, served'.text.height}
                    = {metaFile.text[1][1], metaFile.text[1][2]}
              /\ ~contentFile'.exists /\ metaFile' = metaFile)]_vars

\* the metadata is valid, the content artifact is gone, the instance is a
\* cache hit and its content was generated: b.svg moved by the stored 10
\* in front of its scale(2)
C23_Regenerated ==
    /\ cachedir /\ ~contentFile.exists
    /\ metaFile.exists /\ metaFile.text # TruncatedMeta
    /\ DOMAIN metaFile.text[2] = Members
    /\ \A p \in Members : files[p].mtime < metaFile.mtime
    /\ sprite.state = "ok" /\ sprite.hit /\ sprite.svg_offsets = metaFile.text[3]
    /\ served # NoContent /\ served.src = "generated" /\ served.text.kind = "svg"
    /\ served.text.members[2].transform
         = <<[op |-> "translate", arg |-> 10], [op |-> "scale", arg |-> 2]>>

----------------------------------------------------------------------------
(* Properties of the sprite cache under a changing member order, checked    *)
(* under SpecOrder                                                          *)

\* C15: when the stored keys are the current members, every member is older
\* than the metadata and conf.paths() now gives another order than the one
\* the metadata was written for, the construction is a cache hit.
C15_OrderInsensitive ==
    [][(/\ cachedir /\ metaFile.exists
        /\ DOMAIN metaFile.text[2] = Members
        /\ \A p \in Members : files[p].mtime < metaFile.mtime
        /\ since.order # paths
        /\ Construct)
       => (/\ sprite'.state = "ok" /\ sprite'.hit /\ sprite'.resolved = {}
           /\ sprite'.svg_offsets = metaFile.text[3]
           /\ metaFile' = metaFile /\ contentFile' = contentFile)]_vars

\* a cache written for the order a, b, c was hit under another order
C15_Reordered ==
    /\ fresh /\ sprite.state = "ok" /\ sprite.hit
    /\ since.order = <<"a.svg", "b.svg", "c.svg">> /\ paths # since.order
    /\ Members = {"a.svg", "b.svg", "c.svg"}

\* C16 as stated: after a cache hit the loaded offsets are those of packing
\* the members in the current order of conf.paths().
C16_CurrentOrder ==
    (fresh /\ sprite.state = "ok" /\ sprite.hit)
        => \A p \in Members : sprite.svg_offsets[p] = OffsetIn(paths, p)

\* C16 (amended): after a cache hit the loaded offsets are those of packing
\* the members in the order conf.paths() had when the metadata was written,
\* whatever the current order is.
C16_WrittenOrder ==
    (fresh /\ sprite.state = "ok" /\ sprite.hit)
        => /\ DOMAIN sprite.svg_offsets = Members
           /\ \A p \in Members : sprite.svg_offsets[p] = OffsetIn(since.order, p)

\* a hit under the order c, b, a loaded the offsets 0, -10, -30 of the order
\* a, b, c; packing in the current order gives 0, -5, -25 for c, b, a
C16_Example ==
    /\ fresh /\ sprite.state = "ok" /\ sprite.hit
    /\ paths = <<"c.svg", "b.svg", "a.svg">>
    /\ since.order = <<"a.svg", "b.svg", "c.svg">>
    /\ sprite.svg_offsets = [p \in Members |->
           CASE p = "a.svg" -> 0 [] p = "b.svg" -> -10 [] p = "c.svg" -> -30]
    /\ OffsetIn(paths, "a.svg") = -25

----------------------------------------------------------------------------
(* Properties of two concurrent constructions, checked under SpecRace *)

\* the layout of an instance
Layout(sp) == <<sp.width, sp.height, sp.svg_dimensions, sp.svg_offsets>>

\* C17: when both concurrent constructions over unchanged members have
\* returned, neither has raised, both hold the same layout, and the metadata
\* and the content on storage are the ones a single rebuild writes.
C17_RacingRebuilds ==
    (\A i \in Procs : pc[i] = "done") =>
        /\ \A i \in Procs : inst[i].sp.state = "ok"
        /\ Layout(inst[1].sp) = Layout(inst[2].sp)
        /\ metaFile.exists /\ metaFile.text = json_dumps(pack(paths, files))
        /\ contentFile.exists
        /\ contentFile.text = generate_content(pack(paths, files), paths, files)

\* one call rebuilt and wrote both artifacts, the other read the metadata
\* the first had written and returned it as a cache hit with another layout
C17_HitDiffers ==
    /\ \A i \in Procs : pc[i] = "done" /\ inst[i].sp.state = "ok"
    /\ ~inst[1].sp.hit /\ inst[2].sp.hit
    /\ Layout(inst[1].sp) # Layout(inst[2].sp)
    /\ metaFile.text = json_dumps(pack(paths, files))
    /\ contentFile.text = generate_content(pack(paths, files), paths, files)

----------------------------------------------------------------------------
(* Properties of a construction that runs while member files are rewritten, *)
(* checked under SpecEdit                                                   *)

\* C25: whenever a construction returns as a cache hit, the stored
\* dimensions of every member are the dimensions of the document that
\* member's file holds at that moment; in particular a member rewritten
\* between a rebuild's resolving it and the rebuild's writing the metadata
\* makes the next construction a miss.
C25_NoStaleHit ==
    [][\A i \in Procs :
          (pc[i] = "times" /\ pc'[i] = "done" /\ inst'[i].sp.state = "ok" /\ inst'[i].sp.hit)
             => \A p \in Members :
                   LET d == width_height(files[p].doc) IN
                   /\ d.err = "none"
                   /\ inst'[i].sp.svg_dimensions[p] = <<d.h, d.w>>]_vars

\* the first call resolved a.svg as 10 by 20; a.svg was then rewritten with
\* viewBox="10 10 5 5" before the call wrote the metadata at a later time;
\* the second call was a cache hit holding (20, 10) for a.svg
C25_StaleHit ==
    /\ \A i \in Procs : pc[i] = "done" /\ inst[i].sp.state = "ok"
    /\ ~inst[1].sp.hit /\ inst[2].sp.hit
    /\ files["a.svg"].doc = DocNeg /\ width_height(DocNeg) = WH(-5, -5)
    /\ files["a.svg"].mtime < metaFile.mtime
    /\ metaFile.text[2]["a.svg"] = <<20, 10>>
    /\ inst[2].sp.svg_dimensions["a.svg"] = <<20, 10>>

----------------------------------------------------------------------------
(* Properties of the size directives, checked under SpecSize *)

\* the three grammars, read off the string: $ also matches before a line
\* break that ends the string
Chomp(s) == IF s # <<>> /\ s[Len(s)] = "\n" THEN SubSeq(s, 1, Len(s) - 1) ELSE s

IsNumeral(t) ==
    /\ t # <<>>
    /\ \/ \A i \in 1..Len(t) : IsDigit(t[i])
       \/ \E k \in 2..(Len(t) - 1) :
             t[k] = "." /\ \A i \in (1..Len(t)) \ {k} : IsDigit(t[i])

IsAutoSize(s) == s = <<>> \/ s = Auto
IsAbsoluteSize(s) ==
    \E k \in 1..Len(s) :
        s[k] = "x" /\ IsNumeral(SubSeq(s, 1, k - 1)) /\ IsNumeral(SubSeq(s, k + 1, Len(s)))
IsPercentSize(s) == s # <<>> /\ s[Len(s)] = "%" /\ IsNumeral(SubSeq(s, 1, Len(s) - 1))

Size20x10 == <<"2", "0", "x", "1", "0">>
Size50Percent == <<"5", "0", "%">>

\* C8: wh_multipliers returns (1, 1) for an empty size and for "auto",
\* (W/iw, H/ih) for "WxH" on an image of intrinsic size (iw, ih), and
\* (1 + P/100, 1 + P/100) for "P%" on any image; "20x10" on a 10 by 20 image
\* gives (2, 1/2) and "50%" gives (3/2, 3/2).
C8_Multipliers ==
    out.op = "wh_multipliers" =>
        LET s == Chomp(size)
            d == width_height(image)
        IN
        /\ IsAutoSize(size) => out.res = Mult(FracInt(1), FracInt(1))
        /\ \A k \in 1..Len(s) :
              (/\ ~IsAutoSize(size)
               /\ s[k] = "x"
               /\ IsNumeral(SubSeq(s, 1, k - 1))
               /\ IsNumeral(SubSeq(s, k + 1, Len(s)))
               /\ d.err = "none" /\ d.w # 0 /\ d.h # 0)
              => out.res = Mult(FracDiv(float_of(SubSeq(s, 1, k - 1)), FracInt(d.w)),
                                FracDiv(float_of(SubSeq(s, k + 1, Len(s))), FracInt(d.h)))
        /\ (~IsAutoSize(size) /\ IsPercentSize(s))
              => LET m == FracAdd(FracInt(1),
                                  FracDiv(float_of(SubSeq(s, 1, Len(s) - 1)), FracInt(100)))
                 IN out.res = Mult(m, m)
        /\ (size = Size20x10 /\ image = DocA) => out.res = Mult(<<2, 1>>, <<1, 2>>)
        /\ size = Size50Percent => out.res = Mult(<<3, 2>>, <<3, 2>>)

\* "20x10" on the 10 wide, 20 high image gave (2, 1/2)
C8_Example ==
    /\ out.op = "wh_multipliers" /\ size = Size20x10 /\ image = DocA
    /\ width_height(image) = WH(10, 20)
    /\ out.res = Mult(<<2, 1>>, <<1, 2>>)

\* C9: for a size that is not empty, not "auto" and in neither the WxH nor
\* the P% grammar, wh_multipliers and svg2png raise ValueError; they return
\* neither (1, 1) nor the png as rendered.
C9_InvalidSizeFails ==
    (/\ out.op # "none"
     /\ ~IsAutoSize(size)
     /\ ~IsAbsoluteSize(Chomp(size))
     /\ ~IsPercentSize(Chomp(size)))
    => /\ out.res.err = "ValueError"
       /\ out.res # Mult(FracInt(1), FracInt(1))
       /\ out.res # Png

\* svg2png was called with "banana" and raised
C9_Banana ==
    out.op = "svg2png" /\ size = Banana /\ out.res.err = "ValueError"

Size1p5x2 == <<"1", ".", "5", "x", "2">>

\* C24: for every size "WxH" of the Absolute grammar, whole or fractional,
\* on an image that resolves, wh_multipliers returns the multipliers of the
\* parsed numbers and svg2png resizes to the box of both numbers truncated to
\* integers; neither raises.
C24_AbsoluteAccepted ==
    (out.op # "none" /\ image = DocA /\ IsAbsoluteSize(size)) =>
        \A k \in 1..Len(size) :
            size[k] = "x" =>
                LET w == float_of(SubSeq(size, 1, k - 1))
                    h == float_of(SubSeq(size, k + 1, Len(size)))
                IN
                /\ out.op = "wh_multipliers"
                      => out.res = Mult(FracDiv(w, FracInt(10)), FracDiv(h, FracInt(20)))
                /\ out.op = "svg2png"
                      => out.res = Thumbnail(FracInt(fmt_d(w)), FracInt(fmt_d(h)))

\* svg2png was called with "1.5x2", which Svg.wh_regex matches, and raised
\* the ValueError of int("1.5")
C24_Fractional ==
    /\ out.op = "svg2png" /\ size = Size1p5x2 /\ image = DocA
    /\ wh_regex(size).ok /\ wh_multipliers(image, size).err = "none"
    /\ out.res = PngError("ValueError")

\* C29: for every image that resolves and every size "P%", the box svg2png
\* resizes the png to is the intrinsic (width, height) times the pair
\* wh_multipliers returns for the same size, which is the size css_resized
\* declares.
C29_SameScale ==
    (out.op = "svg2png" /\ IsPercentSize(size) /\ width_height(image).err = "none") =>
        LET d == width_height(image)
            m == wh_multipliers(image, size)
        IN out.res = Thumbnail(FracMul(FracInt(d.w), m.w), FracMul(FracInt(d.h), m.h))

\* "50%" on the 10 by 20 image: svg2png resized to the box (5, 10) while
\* the multipliers (3/2, 3/2) make css_resized declare 15 by 30
C29_Half ==
    /\ out.op = "svg2png" /\ size = Size50Percent /\ image = DocA
    /\ wh_multipliers(image, size) = Mult(<<3, 2>>, <<3, 2>>)
    /\ out.res = Thumbnail(FracInt(5), FracInt(10))

----------------------------------------------------------------------------
(* Properties of the dimension resolver, checked under SpecSvg *)

WellFormedViewBox(vb) == Len(vb.tokens) = 4 /\ \A i \in 1..4 : vb.tokens[i].ok

\* C10: when the document has a viewBox "x y w h" the result is (w - x, h - y)
\* whatever the width and height attributes are, and a viewBox that is there
\* but malformed is an error; the width and height attributes, "px"
\* stripped, give the result only when there is no viewBox.
C10_ViewBoxFirst ==
    (got.op = "width_height" /\ got.parsed) =>
        LET vb == got.doc.viewBox IN
        /\ (vb.present /\ WellFormedViewBox(vb))
              => got.res = WH(vb.tokens[3].val - vb.tokens[1].val,
                              vb.tokens[4].val - vb.tokens[2].val)
        /\ (vb.present /\ ~WellFormedViewBox(vb)) => got.res.err # "none"
        /\ (~vb.present /\ got.res.err = "none")
              => /\ got.doc.width.present /\ got.doc.height.present
                 /\ got.doc.width.unit \in {"", "px"}
                 /\ got.res = WH(got.doc.width.val, got.doc.height.val)
        /\ (~vb.present /\ got.doc.width = Attr(20, "px") /\ got.doc.height = Attr(30, ""))
              => got.res = WH(20, 30)

\* viewBox="0 0 10 20" with width="999" resolved to width 10, height 20
C10_Example ==
    /\ got.op = "width_height" /\ got.parsed
    /\ got.doc = DocA /\ got.doc.width.val = 999
    /\ got.res = WH(10, 20)

\* C13: whenever the resolver returns without error, the width and the
\* height it returns are both > 0.
C13_Positive ==
    (got.op = "width_height" /\ got.res.err = "none") => (got.res.w > 0 /\ got.res.h > 0)

\* viewBox="20 20 10 10" (x >= w and y >= h) was accepted and resolved to
\* width -10, height -10
C13_Negative ==
    /\ got.op = "width_height" /\ got.parsed
    /\ got.doc.viewBox = ViewBox(<<Tok(20), Tok(20), Tok(10), Tok(10)>>)
    /\ got.res = WH(-10, -10)

\* the value of a width or height attribute is a number, "px" aside
NumericAttr(a) == a.ok /\ a.unit \in {"", "px"}

\* the documents C14 names: no viewBox and not both attributes, a viewBox
\* without exactly four tokens, or a value that is not a number
Malformed(doc) ==
    IF doc.viewBox.present
    THEN \/ Len(doc.viewBox.tokens) # 4
         \/ \E i \in 1..Len(doc.viewBox.tokens) : ~doc.viewBox.tokens[i].ok
    ELSE \/ ~doc.width.present \/ ~doc.height.present
         \/ ~NumericAttr(doc.width) \/ ~NumericAttr(doc.height)

\* C14: resolving a malformed document raises (also when its viewBox is
\* malformed and its width and height attributes are valid), nothing is
\* memoized in _wh, and a layout build over the document raises the error.
C14_MalformedFails ==
    /\ (got.op = "width_height" /\ Malformed(got.doc))
          => (got.parsed /\ got.res.err \in {"KeyError", "ValueError"} /\ _wh = NoWH)
    /\ (sprite.state # "none" /\ Malformed(svg))
          => (sprite.state = "error" /\ sprite.err \in {"KeyError", "ValueError"})

\* viewBox="0 0 10" with width="20px" height="30": the access raised, _wh is
\* still None and the layout build raised
C14_Example ==
    /\ svg = Doc(ViewBox(<<Tok(0), Tok(0), Tok(10)>>), Attr(20, "px"), Attr(30, ""), <<>>)
    /\ width_height_attrs(svg) = WH(20, 30)
    /\ got.op = "width_height" /\ got.res = Raise("ValueError") /\ _wh = NoWH
    /\ sprite = FailedSprite("ValueError")

\* C21: once an access of width or height has succeeded on an instance, every
\* later access on it returns that same pair and parses nothing, also after
\* the backing file was overwritten and also when the pair is (0, 0).
C21_ComputedOnce ==
    [][(_wh.set /\ WidthHeight)
          => /\ ~got'.parsed
             /\ got'.res = WH(_wh.val[1], _wh.val[2])
             /\ _wh' = _wh]_vars

\* viewBox="10 10 10 10" resolved to (0, 0); the file was then overwritten
\* with viewBox="0 0 10 20" and the next access still returned (0, 0)
C21_ZeroKept ==
    /\ got.op = "width_height" /\ ~got.parsed
    /\ got.doc = DocA /\ width_height(got.doc) = WH(10, 20)
    /\ got.res = WH(0, 0)

----------------------------------------------------------------------------
(* Properties of the generated content over float widths, under SpecStrip *)

\* the sum of the widths of the first k members of the row
RECURSIVE WidthsBefore(_, _)
WidthsBefore(ms, k) == IF k = 0 THEN FracInt(0) ELSE FracAdd(WidthsBefore(ms, k - 1), ms[k].w)

\* the x the node is moved to: the argument of its leading translate, if any
TranslateOf(node, tr) == IF node = tr THEN FracInt(0) ELSE FracInt(Head(node).arg)

\* C22: a member whose offset is 0 keeps its transform as it is; every other
\* member gets translate(-offset), which is the sum of the widths packed
\* before it, in front of its own transform; and the extents
\* [translate, translate + width) of two members of the row never overlap.
C22_Translate ==
    strip.stage = "generated" =>
        LET ms == strip.members
            x(i) == TranslateOf(strip.nodes[i], ms[i].transform)
        IN
        /\ \A i \in 1..Len(ms) :
              IF strip.offsets[i] = FracInt(0)
              THEN strip.nodes[i] = ms[i].transform
              ELSE /\ Len(strip.nodes[i]) = Len(ms[i].transform) + 1
                   /\ Head(strip.nodes[i]).op = "translate"
                   /\ Tail(strip.nodes[i]) = ms[i].transform
                   /\ FracInt(Head(strip.nodes[i]).arg) = FracNeg(strip.offsets[i])
                   /\ FracNeg(strip.offsets[i]) = WidthsBefore(ms, i - 1)
        /\ \A i, j \in 1..Len(ms) :
              i < j => FracLeq(FracAdd(x(i), ms[i].w), x(j))

\* widths 10.5 and 10: the second member has offset -10.5 and got
\* translate(10), so it begins inside the extent [0, 10.5) of the first
C22_Truncated ==
    /\ strip.stage = "generated"
    /\ Len(strip.members) = 2
    /\ strip.members[1].w = Frac(21, 2) /\ strip.members[2].w = FracInt(10)
    /\ strip.offsets[2] = Frac(-21, 2)
    /\ Head(strip.nodes[2]) = [op |-> "translate", arg |-> 10]

----------------------------------------------------------------------------
(* Properties of the member identifiers, checked under SpecIds *)

\* C28: two distinct member paths of one member set never get the same id in
\* the generated content nor the same .icon-<id> class in the css.
C28_UniqueIds ==
    /\ ids.id # <<>> => ids.id[1] # ids.id[2]
    /\ ids.class # <<>> => ids.class[1] # ids.class[2]

\* x/y.svg and x-y.svg both got the id x-y and the class .icon-x-y
C28_SameId ==
    /\ ids.paths = <<<<"x", "/", "y", ".", "s", "v", "g">>, <<"x", "-", "y", ".", "s", "v", "g">>>>
    /\ ids.id = <<<<"x", "-", "y">>, <<"x", "-", "y">>>>
    /\ ids.class = ids.id

====
